---- MODULE Spec2Model ----
(***************************************************************************)
(* A model of kave's wire protocol codec (src/src/proto.rs) and of its     *)
(* LSM store facade (src/src/store/lsm.rs).                                *)
(*                                                                         *)
(* A byte is a one-character string; a byte string (Vec<u8>, &[u8],        *)
(* String) is a sequence of bytes.  Option<T> is a sequence of length at   *)
(* most one: None is <<>>, Some(v) is <<v>>.  Cursor positions (ptr) are   *)
(* zero-based as in the source, so the byte at the cursor is buf[ptr + 1]. *)
(***************************************************************************)
EXTENDS Integers, Sequences, FiniteSets

\* ------------------------------------------------------------------------
\* Bytes and decimal conversions
\* ------------------------------------------------------------------------

NL == "\n"
COLON == ":"

Digits == <<"0", "1", "2", "3", "4", "5", "6", "7", "8", "9">>

IsDigit(c) == \E d \in 1..10 : Digits[d] = c

DigitVal(c) == (CHOOSE d \in 1..10 : Digits[d] = c) - 1

Min(a, b) == IF a < b THEN a ELSE b

Max(a, b) == IF a < b THEN b ELSE a

\* usize::to_string: the decimal digits of n, most significant first.
RECURSIVE ToString(_)
ToString(n) ==
    IF n < 10 THEN <<Digits[n + 1]>>
    ELSE ToString(n \div 10) \o <<Digits[(n % 10) + 1]>>

\* The value of a non-empty string of decimal digits.
RECURSIVE DigitsValue(_)
DigitsValue(s) ==
    IF Len(s) = 0 THEN 0
    ELSE 10 * DigitsValue(SubSeq(s, 1, Len(s) - 1)) + DigitVal(s[Len(s)])

\* str::parse::<usize>: an optional leading '+', then one or more decimal
\* digits; anything else (the empty string included) is a ParseIntError,
\* rendered here as -1.
ParseUsize(s) ==
    LET body == IF Len(s) > 0 /\ s[1] = "+" THEN Tail(s) ELSE s
    IN  IF Len(body) > 0 /\ \A i \in 1..Len(body) : IsDigit(body[i])
        THEN DigitsValue(body)
        ELSE -1

\* A byte that can occur in no UTF-8 text (0xFF).
BadByte == "\\xff"

\* std::str::from_utf8 / String::from_utf8 succeed: every other byte of the
\* model's alphabet is ASCII.
IsUtf8(s) == \A i \in 1..Len(s) : s[i] # BadByte

\* ------------------------------------------------------------------------
\* ProtoOp, the results of read(), and the requests of the wire protocol
\* ------------------------------------------------------------------------

Get(k) == [kind |-> "Get", key |-> k]

Set(k, v) == [kind |-> "Set", key |-> k, value |-> v]

Echo(m) == [kind |-> "Echo", msg |-> m]

SysClose == [kind |-> "SysClose"]

Cancelled == [kind |-> "Cancelled"]

\* read() returning Err(..); why tells the return sites apart.
Err(why) == [kind |-> "Err", why |-> why]

\* No result yet.
NoOp == [kind |-> "None"]

IsRequest(r) == r.kind \in {"Get", "Set", "Echo"}

MIN_BUF_SIZE == 4

BUF_SIZE == 256

\* A request as the client writes it: the ProtoOp it stands for and the
\* bytes it puts between the final payload and the terminating newline.
Request(o, trail) == [op |-> o, trail |-> trail]

Frame(bytes) == <<COLON>> \o ToString(Len(bytes)) \o <<COLON>> \o bytes

\* The wire form of a request (grammar of the read() doc comment).
Encode(r) ==
    (CASE r.op.kind = "Get" -> <<"G", "E", "T">> \o Frame(r.op.key)
       [] r.op.kind = "Set" ->
            <<"S", "E", "T">> \o Frame(r.op.key) \o Frame(r.op.value)
       [] r.op.kind = "Echo" -> <<"E", "C", "H", "O">> \o Frame(r.op.msg))
    \o r.trail \o <<NL>>

\* ------------------------------------------------------------------------
\* The protocol writer: the bytes each write_* call puts on the stream
\* ------------------------------------------------------------------------

write_null == <<"n", "u", "l", "l", NL>>

write_echo(data) == ToString(Len(data)) \o <<COLON>> \o data \o <<NL>>

write_get_result(data) == ToString(Len(data)) \o <<COLON>> \o data \o <<NL>>

\* A slip: the acknowledgement framed as write_get_result frames a value.
write_set_result_as_value(data) ==
    ToString(Len(data)) \o <<COLON>> \o data \o <<NL>>

write_set_result(data) ==
    LET len_v == ToString(Len(data))
        len_v_len == ToString(Len(len_v))
    IN  len_v_len \o <<COLON>> \o len_v \o <<NL>>

\* ------------------------------------------------------------------------
\* LSMStoreData: the memtable and the membership filter
\* ------------------------------------------------------------------------

\* TransactInstruction::Set(key, value) is the record Set(key, value) above.
Delete(k) == [kind |-> "Delete", key |-> k]

Alphabet == <<"a", "b", "c", "x", COLON, NL, "+", BadByte, "G", "E", "T",
              "S", "C", "H", "O">> \o Digits

ByteCode(c) == CHOOSE i \in 1..Len(Alphabet) : Alphabet[i] = c

RECURSIVE ByteSum(_)
ByteSum(k) == IF k = <<>> THEN 0 ELSE ByteCode(Head(k)) + ByteSum(Tail(k))

\* The filter is the set of its bits that are set.  Murmur3 and the bit
\* array are scaled down to two probes into three bits, which keeps what
\* matters of a Bloom filter: no false negative, and a key never inserted
\* answers true once the keys inserted cover its bits.
BloomBits(k) == { ByteSum(k) % 3, (ByteSum(k) + 1) % 3 }

\* BloomFilter::insert
BloomInsert(bf, k) == bf \cup BloomBits(k)

\* BloomFilter::contains
BloomContains(bf, k) == BloomBits(k) \subseteq bf

\* A slip: insert-if-absent, the earlier entry for a key is kept.
MemInsertKeep(mt, k, v) ==
    [x \in (DOMAIN mt) \cup {k} |-> IF x \in DOMAIN mt THEN mt[x] ELSE v]

\* RBMap::insert: a later insert for a key replaces the earlier one.
MemInsert(mt, k, v) ==
    [x \in (DOMAIN mt) \cup {k} |-> IF x = k THEN v ELSE mt[x]]

\* RBMap::get: Option<&Option<Vec<u8>>>
MemGet(mt, k) == IF k \in DOMAIN mt THEN <<mt[k]>> ELSE <<>>

\* A slip: Delete takes the key's entry out of the memtable.
MemAfterDeleteRemoves(mt, i) ==
    IF i.kind = "Set" THEN MemInsert(mt, i.key, <<i.value>>)
    ELSE [x \in (DOMAIN mt) \ {i.key} |-> mt[x]]

\* A slip: Set extends the value the memtable holds for the key.
MemAfterAppend(mt, i) ==
    IF i.kind = "Set"
    THEN MemInsert(mt, i.key,
                   IF i.key \in DOMAIN mt /\ mt[i.key] # <<>>
                   THEN <<mt[i.key][1] \o i.value>> ELSE <<i.value>>)
    ELSE MemInsert(mt, i.key, <<>>)

\* One instruction of transact applied to the memtable.
MemAfter(mt, i) ==
    IF i.kind = "Set" THEN MemInsert(mt, i.key, <<i.value>>)
    ELSE MemInsert(mt, i.key, <<>>)

\* A slip: Set leaves the filter alone.
BloomAfterNone(bf, i) == bf

\* One instruction of transact applied to the filter.
BloomAfter(bf, i) == IF i.kind = "Set" THEN BloomInsert(bf, i.key) ELSE bf

\* A slip: a tombstone is returned as an empty value.
LsmGetDefault(mt, bf, k) ==
    IF ~BloomContains(bf, k) THEN [kind |-> "Ok", val |-> <<>>]
    ELSE IF MemGet(mt, k) = <<>> THEN [kind |-> "Panic"]
    ELSE [kind |-> "Ok",
          val |-> IF MemGet(mt, k)[1] = <<>> THEN << <<>> >>
                  ELSE MemGet(mt, k)[1]]

\* LSMStore::get under the lock: Ok(Option<Vec<u8>>), or the panic of
\* unwrap() on a key the memtable does not hold.
LsmGet(mt, bf, k) ==
    IF ~BloomContains(bf, k) THEN [kind |-> "Ok", val |-> <<>>]
    ELSE IF MemGet(mt, k) = <<>> THEN [kind |-> "Panic"]
    ELSE [kind |-> "Ok", val |-> MemGet(mt, k)[1]]

\* ------------------------------------------------------------------------
\* Bounds and inputs
\* ------------------------------------------------------------------------

\* Requests one client writes in a session.
MaxReqs == 2

\* The requests a session's client chooses from: the three commands, payloads
\* holding ':' or a newline, and bytes before the terminating newline.
Requests ==
    { Request(Get(<<"a">>), <<>>),
      Request(Set(<<"a">>, <<"b">>), <<>>),
      Request(Echo(<<"a">>), <<>>),
      Request(Echo(<<NL>>), <<>>),
      Request(Set(<<COLON>>, <<NL>>), <<>>),
      Request(Echo(<<"b">>), <<"x">>) }

\* Payloads of every length up to MaxPayload over these bytes, and runs of
\* one byte whose lengths take one and two decimal digits.
MaxPayload == 2

MaxLong == 11

PayloadBytes == {"a", COLON, NL}

Payloads(n) == UNION { [1..m -> PayloadBytes] : m \in 0..n }

LongPayloads == { [i \in 1..m |-> "a"] : m \in 9..MaxLong }

\* The single request of a one-request session.
OneRequests ==
    { Request(Get(k), <<>>) : k \in Payloads(MaxPayload) \cup LongPayloads }
    \cup { Request(Echo(m), <<>>) : m \in Payloads(MaxPayload) \cup LongPayloads }
    \cup { Request(Set(k, v), <<>>) :
             k \in Payloads(1), v \in Payloads(MaxPayload) \cup LongPayloads }

\* The data handed to the writer: as above, with runs up to MaxData bytes.
MaxData == 12

WriterData == Payloads(2) \cup { [i \in 1..m |-> "a"] : m \in 3..MaxData }

\* The store's clients (clones of one LSMStore handle), the instructions
\* they choose from and the length of a transaction.
Handles == {1, 2}

StoreKeys == { <<"a">>, <<"b">>, <<"c">> }

Instructions ==
    { Set(<<"a">>, <<"v">>), Set(<<"a">>, <<>>), Delete(<<"a">>),
      Set(<<"b">>, <<"v">>), Delete(<<"c">>) }

MaxTxnLen == 2

Transactions == UNION { [1..m -> Instructions] : m \in 1..MaxTxnLen }

\* ------------------------------------------------------------------------
\* State
\* ------------------------------------------------------------------------

VARIABLES
    \* struct Proto
    buf,              \* self.buf
    fresh,            \* self.fresh
    \* the locals of one read() call
    state, op, between_colons, needs_read, ptr,
    key_len_buf, key_len, key, echo,
    value_len_buf, value_len, value, residual,
    \* the session: where it stands, what read() returned last
    pc,               \* "idle", "run" (inside read), "ret", "closed"
    ret,
    \* the connection
    wire,             \* bytes the client has written and the reader not yet read
    resp,             \* the bytes of the last response written
    \* struct LSMStoreData
    memtable, bloom_filter,
    \* the store's clients
    mutex,            \* 0 when the store's Mutex is free, else its holder
    hpc,              \* per handle: "idle", "get", "transact" (awaiting the
                      \* lock), "apply" (inside transact's loop), "got"
                      \* (get has returned), "panic"
    todo,             \* the instructions transact has still to apply
    got,              \* per handle, what its get returned and for which key
    \* the writer under test
    wdata, wout,
    \* history (no program state): what the client asked for
    pending,          \* requests written whose op read() has not yet returned
    expected,         \* the request the last return of read() stood for
    prev,             \* the request returned before that one
    nSent, nRet, nResp,
    ahead,            \* bytes read so far minus bytes up to the last returned
                      \* request's terminator
    oneByte,          \* every socket read so far returned exactly one byte
    firstRead,        \* the session's first socket read: "none" yet, "short"
                      \* (fewer than MIN_BUF_SIZE bytes) or "ok"
    resumed,          \* the current call of read() has refilled the buffer
                      \* in the middle of a length or payload field
    last,             \* per key, the last instruction for it among the
                      \* transactions that took the lock so far
    serial,           \* the memtable and filter that result from applying
                      \* the transactions one after the other in the order
                      \* in which they took the lock
    \* the connection's surroundings
    kill,             \* the shutdown signal has been broadcast
    peer              \* "open"; "closed" (the peer closed cleanly: socket
                      \* reads return Ok(0)); "aborted" (the stream ended
                      \* without a close: reads fail with UnexpectedEof);
                      \* "failed" (reads fail with another I/O error)

protoVars == <<buf, fresh>>

localVars == <<state, op, between_colons, needs_read, ptr, key_len_buf,
               key_len, key, echo, value_len_buf, value_len, value, residual>>

storeVars == <<memtable, bloom_filter>>

clientVars == <<mutex, hpc, todo, got, last, serial>>

writerVars == <<wdata, wout>>

connVars == <<kill, peer>>

histVars == <<pending, expected, prev, nSent, nRet, ahead>>

readHist == <<oneByte, firstRead, resumed>>

vars == <<protoVars, localVars, pc, ret, wire, resp, nResp, storeVars,
          clientVars, writerVars, histVars, readHist, connVars>>

\* Everything no step of read() touches.
outsideRead == <<resp, nResp, storeVars, clientVars, writerVars, nSent,
                 connVars>>

\* ------------------------------------------------------------------------
\* Proto::read
\* ------------------------------------------------------------------------

NoReq == Request(NoOp, <<>>)

\* read() goes on: nothing is returned.
Stay == UNCHANGED <<pc, ret, pending, expected, prev, nRet, ahead>>

\* read() returns r to the session.  The history takes the oldest request
\* not yet answered as the one this return stands for.
Return(r) ==
    /\ ret' = r
    /\ pc' = "ret"
    /\ expected' = IF pending = <<>> THEN NoReq ELSE Head(pending)
    /\ prev' = expected
    /\ pending' = IF pending = <<>> THEN pending ELSE Tail(pending)
    /\ nRet' = nRet + 1
    /\ ahead' = IF pending = <<>> THEN ahead
                ELSE ahead - Len(Encode(Head(pending)))

\* The session calls read(): the starting defaults of the call's locals.
Call ==
    /\ pc = "idle"
    /\ nRet <= MaxReqs
    /\ pc' = "run"
    /\ ret' = NoOp
    /\ state' = "Start"
    /\ op' = "Get"
    /\ between_colons' = FALSE
    /\ needs_read' = fresh
    /\ ptr' = 0
    /\ key_len_buf' = <<>>
    /\ key_len' = 0
    /\ key' = <<>>
    /\ echo' = <<>>
    /\ value_len_buf' = <<>>
    /\ value_len' = 0
    /\ value' = <<>>
    /\ residual' = <<>>
    /\ resumed' = FALSE
    /\ UNCHANGED <<protoVars, wire, histVars, oneByte, firstRead, outsideRead>>

\* A slip: the residual bytes are dropped at the refill.
RefilledWithoutResidual(res, chunk) == chunk

\* The states that read a length or a payload field.
FieldStates ==
    {"ReadKeyLen", "ReadKey", "ReadEcho", "ReadValueLen", "ReadValue"}

\* The contents of self.buf after a socket read of chunk: the residual
\* bytes, when there are any, are put in front of what was read.
Refilled(res, chunk) == IF res # <<>> THEN res \o chunk ELSE chunk

\* `if needs_read`: self.buf is cleared and the socket read returns the
\* next n bytes of the connection, at most the buffer's spare capacity.
Refill(n) ==
    /\ pc = "run"
    /\ needs_read
    /\ n \in 1..Min(Len(wire), BUF_SIZE)
    /\ buf' = Refilled(residual, SubSeq(wire, 1, n))
    /\ residual' = <<>>
    /\ wire' = SubSeq(wire, n + 1, Len(wire))
    /\ ptr' = 0
    /\ needs_read' = FALSE
    /\ ahead' = ahead + n
    /\ oneByte' = (oneByte /\ n = 1)
    /\ firstRead' = IF firstRead # "none" THEN firstRead
                    ELSE IF n < MIN_BUF_SIZE THEN "short" ELSE "ok"
    /\ resumed' = (resumed \/ state \in FieldStates)
    /\ UNCHANGED <<fresh, state, op, between_colons, key_len_buf, key_len,
                   key, echo, value_len_buf, value_len, value, pc, ret,
                   pending, expected, prev, nRet, outsideRead>>

\* A slip: the result is dropped and read() goes on awaiting the socket.
QuitIgnored(r) ==
    UNCHANGED <<pc, ret, nRet, pending, expected, prev, ahead>>

\* read() returns r, which stands for no request of the client.
Quit(r) ==
    /\ ret' = r
    /\ pc' = "ret"
    /\ nRet' = nRet + 1
    /\ UNCHANGED <<pending, expected, prev, ahead>>

\* What a refill that brings no byte leaves of the call: self.buf cleared.
NoBytes ==
    /\ pc = "run"
    /\ needs_read
    /\ buf' = <<>>
    /\ UNCHANGED <<fresh, localVars, wire, readHist, outsideRead>>

\* A slip: the bytes the socket holds are taken while cancelling.
ReadCancelledDrains ==
    /\ pc = "run"
    /\ needs_read
    /\ kill
    /\ buf' = <<>>
    /\ wire' = <<>>
    /\ Quit(Cancelled)
    /\ UNCHANGED <<fresh, localVars, readHist, outsideRead>>

\* read_buf: kill.recv() completes first in the select; read() returns
\* Ok(ProtoOp::Cancelled).  The socket read is dropped without having read.
ReadCancelled ==
    /\ kill
    /\ NoBytes
    /\ Quit(Cancelled)

\* read_buf: the socket read fails with UnexpectedEof; read() returns
\* Ok(ProtoOp::SysClose).
ReadEof ==
    /\ peer = "aborted"
    /\ wire = <<>>
    /\ NoBytes
    /\ Quit(SysClose)

\* read_buf: the socket read fails with another error; read() returns Err.
ReadIoError ==
    /\ peer = "failed"
    /\ wire = <<>>
    /\ NoBytes
    /\ Quit(Err("io"))

\* read_buf: the socket read returns Ok(0), the end of a stream the peer
\* closed; it is taken as ProtoRead::Read(0) and the state loop goes on
\* with what the residual holds.
ReadZero ==
    /\ pc = "run"
    /\ needs_read
    /\ peer = "closed"
    /\ wire = <<>>
    /\ buf' = Refilled(residual, <<>>)
    /\ residual' = <<>>
    /\ ptr' = 0
    /\ needs_read' = FALSE
    /\ oneByte' = FALSE
    /\ firstRead' = IF firstRead # "none" THEN firstRead ELSE "short"
    /\ resumed' = (resumed \/ state \in FieldStates)
    /\ UNCHANGED <<fresh, state, op, between_colons, key_len_buf, key_len,
                   key, echo, value_len_buf, value_len, value, pc, ret, wire,
                   pending, expected, prev, nRet, ahead, outsideRead>>

\* A step of the state loop is taken when no socket read is due.
InState(s) == pc = "run" /\ ~needs_read /\ state = s

\* The zero-based position just past the first newline of b at or after
\* position p; 0 when there is none.
NewlineEnd(b, p) ==
    IF \E i \in (p + 1)..Len(b) : b[i] = NL
    THEN CHOOSE i \in (p + 1)..Len(b) :
            b[i] = NL /\ \A j \in (p + 1)..(i - 1) : b[j] # NL
    ELSE 0

\* State::Start
Start ==
    /\ InState("Start")
    /\ IF fresh
       THEN /\ state' = "ReadOp"
            /\ fresh' = FALSE
            /\ UNCHANGED <<ptr, residual, needs_read>>
       ELSE LET e == NewlineEnd(buf, ptr)
            IN  /\ fresh' = fresh
                /\ IF e > 0
                   THEN /\ ptr' = e
                        /\ state' = "ReadOp"
                        /\ residual' = IF e < Len(buf)
                                       THEN residual \o SubSeq(buf, e + 1, Len(buf))
                                       ELSE residual
                        /\ UNCHANGED needs_read
                   ELSE /\ ptr' = Max(ptr, Len(buf))
                        /\ needs_read' = TRUE
                        /\ UNCHANGED <<state, residual>>
    /\ Stay
    /\ UNCHANGED <<buf, op, between_colons, key_len_buf, key_len, key, echo,
                   value_len_buf, value_len, value, wire, readHist,
                   outsideRead>>

OpTokens == { <<"G", "E", "T", ":">>, <<"S", "E", "T", ":">>,
              <<"E", "C", "H", "O">> }

OpOfToken(tok) ==
    CASE tok = <<"G", "E", "T", ":">> -> "Get"
      [] tok = <<"S", "E", "T", ":">> -> "Set"
      [] tok = <<"E", "C", "H", "O">> -> "Echo"

\* The cursor after the opcode token tok was matched with the cursor at p.
PtrAfterOp(p, tok) == IF tok = <<"E", "C", "H", "O">> THEN 4 ELSE 3

\* A slip: a short opcode is never taken for malformed input.
AtBufferStartNever(p) == FALSE

\* `if ptr == 0`: the cursor is at the start of the read buffer.
AtBufferStart(p) == p = 0

\* State::ReadOp
ReadOp ==
    /\ InState("ReadOp")
    /\ LET read_op_end_ptr == ptr + MIN_BUF_SIZE
           tok == SubSeq(buf, ptr + 1, read_op_end_ptr)
       IN  IF read_op_end_ptr > Len(buf)
           THEN IF AtBufferStart(ptr)
                THEN /\ Return(Err("short_op"))
                     /\ UNCHANGED <<op, ptr, needs_read, state>>
                ELSE /\ needs_read' = TRUE
                     /\ Stay
                     /\ UNCHANGED <<op, ptr, state>>
           ELSE IF tok \in OpTokens
                THEN /\ op' = OpOfToken(tok)
                     /\ ptr' = PtrAfterOp(ptr, tok)
                     /\ needs_read' = FALSE
                     /\ state' = "ReadKeyLen"
                     /\ Stay
                ELSE /\ Return(Err("unknown_op"))
                     /\ UNCHANGED <<op, ptr, needs_read, state>>
    /\ UNCHANGED <<protoVars, between_colons, key_len_buf, key_len, key, echo,
                   value_len_buf, value_len, value, residual, wire, readHist,
                   outsideRead>>

\* The loop of ReadKeyLen and ReadValueLen over b from position p: "nocolon"
\* when the field does not open with ':', "end" at the closing ':', "more"
\* when the buffer ran out first.
RECURSIVE ScanLen(_, _, _, _)
ScanLen(b, p, bc, lb) ==
    IF p >= Len(b)
    THEN [kind |-> "more", ptr |-> p, between |-> bc, lenbuf |-> lb]
    ELSE IF ~bc
         THEN IF b[p + 1] # COLON
              THEN [kind |-> "nocolon", ptr |-> p, between |-> bc, lenbuf |-> lb]
              ELSE ScanLen(b, p + 1, TRUE, lb)
         ELSE IF b[p + 1] = COLON
              THEN [kind |-> "end", ptr |-> p + 1, between |-> FALSE,
                    lenbuf |-> lb]
              ELSE ScanLen(b, p + 1, bc, Append(lb, b[p + 1]))

\* A slip: the test for Op::Echo is left out.
AfterKeyLenToKey(o) == "ReadKey"

\* The state after the key length was parsed.
AfterKeyLen(o) == IF o = "Echo" THEN "ReadEcho" ELSE "ReadKey"

\* State::ReadKeyLen
ReadKeyLen ==
    /\ InState("ReadKeyLen")
    /\ LET s == ScanLen(buf, ptr, between_colons, key_len_buf)
       IN  CASE s.kind = "nocolon" ->
                  /\ Return(Err("expected_colon"))
                  /\ UNCHANGED <<state, between_colons, needs_read, ptr,
                                 key_len_buf, key_len>>
             [] s.kind = "more" ->
                  /\ needs_read' = TRUE
                  /\ ptr' = s.ptr
                  /\ between_colons' = s.between
                  /\ key_len_buf' = s.lenbuf
                  /\ Stay
                  /\ UNCHANGED <<state, key_len>>
             [] s.kind = "end" ->
                  IF IsUtf8(s.lenbuf) /\ ParseUsize(s.lenbuf) >= 0
                  THEN /\ key_len' = ParseUsize(s.lenbuf)
                       /\ state' = AfterKeyLen(op)
                       /\ ptr' = s.ptr
                       /\ between_colons' = s.between
                       /\ key_len_buf' = s.lenbuf
                       /\ Stay
                       /\ UNCHANGED needs_read
                  ELSE /\ Return(Err("key_len"))
                       /\ UNCHANGED <<state, between_colons, needs_read, ptr,
                                      key_len_buf, key_len>>
    /\ UNCHANGED <<protoVars, op, key, echo, value_len_buf, value_len, value,
                   residual, wire, readHist, outsideRead>>

\* A slip: `>` for `>=` in the test that ends a payload.
PayloadDoneStrict(acc, n) == Len(acc) > n

\* `if echo.len() >= key_len` and its like: the payload is complete.
PayloadDone(acc, n) == Len(acc) >= n

\* A slip: the loop condition without its length test.
TakenAll(b, p, acc, n) == SubSeq(b, p + 1, Len(b))

\* The bytes a payload loop moves from b at position p to an output that
\* holds acc and is to reach n bytes.
Taken(b, p, acc, n) == SubSeq(b, p + 1, p + Min(Len(b) - p, Max(n - Len(acc), 0)))

\* State::ReadEcho
ReadEcho ==
    /\ InState("ReadEcho")
    /\ LET t == Taken(buf, ptr, echo, key_len)
       IN  /\ echo' = echo \o t
           /\ ptr' = ptr + Len(t)
           /\ IF PayloadDone(echo \o t, key_len)
              THEN state' = "Done" /\ UNCHANGED needs_read
              ELSE needs_read' = TRUE /\ UNCHANGED state
    /\ Stay
    /\ UNCHANGED <<protoVars, op, between_colons, key_len_buf, key_len, key,
                   value_len_buf, value_len, value, residual, wire, readHist,
                   outsideRead>>

\* The state after the key was read.
AfterKey(o) == IF o = "Get" THEN "Done" ELSE "ReadValueLen"

\* State::ReadKey
ReadKey ==
    /\ InState("ReadKey")
    /\ LET t == Taken(buf, ptr, key, key_len)
       IN  /\ key' = key \o t
           /\ ptr' = ptr + Len(t)
           /\ IF PayloadDone(key \o t, key_len)
              THEN IF op = "Echo"
                   THEN \* unreachable!()
                        /\ pc' = "panic"
                        /\ UNCHANGED <<state, needs_read, ret, pending,
                                       expected, prev, nRet, ahead>>
                   ELSE state' = AfterKey(op) /\ Stay /\ UNCHANGED needs_read
              ELSE needs_read' = TRUE /\ Stay /\ UNCHANGED state
    /\ UNCHANGED <<protoVars, op, between_colons, key_len_buf, key_len, echo,
                   value_len_buf, value_len, value, residual, wire, readHist,
                   outsideRead>>

\* State::ReadValueLen
ReadValueLen ==
    /\ InState("ReadValueLen")
    /\ LET s == ScanLen(buf, ptr, between_colons, value_len_buf)
       IN  CASE s.kind = "nocolon" ->
                  /\ Return(Err("expected_colon"))
                  /\ UNCHANGED <<state, between_colons, needs_read, ptr,
                                 value_len_buf, value_len>>
             [] s.kind = "more" ->
                  /\ needs_read' = TRUE
                  /\ ptr' = s.ptr
                  /\ between_colons' = s.between
                  /\ value_len_buf' = s.lenbuf
                  /\ Stay
                  /\ UNCHANGED <<state, value_len>>
             [] s.kind = "end" ->
                  IF IsUtf8(s.lenbuf) /\ ParseUsize(s.lenbuf) >= 0
                  THEN /\ value_len' = ParseUsize(s.lenbuf)
                       /\ state' = "ReadValue"
                       /\ ptr' = s.ptr
                       /\ between_colons' = s.between
                       /\ value_len_buf' = s.lenbuf
                       /\ Stay
                       /\ UNCHANGED needs_read
                  ELSE /\ Return(Err("value_len"))
                       /\ UNCHANGED <<state, between_colons, needs_read, ptr,
                                      value_len_buf, value_len>>
    /\ UNCHANGED <<protoVars, op, key_len_buf, key_len, key, echo, value,
                   residual, wire, readHist, outsideRead>>

\* State::ReadValue
ReadValue ==
    /\ InState("ReadValue")
    /\ LET t == Taken(buf, ptr, value, value_len)
       IN  /\ value' = value \o t
           /\ ptr' = ptr + Len(t)
           /\ IF PayloadDone(value \o t, value_len)
              THEN state' = "Done" /\ UNCHANGED needs_read
              ELSE needs_read' = TRUE /\ UNCHANGED state
    /\ Stay
    /\ UNCHANGED <<protoVars, op, between_colons, key_len_buf, key_len, key,
                   echo, value_len_buf, value_len, residual, wire, readHist,
                   outsideRead>>

\* What State::Done returns for the opcode o and the collected fields.
DoneOp(o, k, v, e) ==
    IF ~IsUtf8(k) THEN Err("key_utf8")
    ELSE CASE o = "Echo" -> Echo(e)
           [] o = "Get" -> Get(k)
           [] o = "Set" -> Set(k, v)

\* State::Done
Done ==
    /\ InState("Done")
    /\ Return(DoneOp(op, key, value, echo))
    /\ UNCHANGED <<protoVars, localVars, wire, readHist, outsideRead>>

\* ------------------------------------------------------------------------
\* The session driver and the client
\* ------------------------------------------------------------------------

\* The response the driver writes for request r on the store (mt, bf).
ResponseTo(r, mt, bf) ==
    CASE r.kind = "Echo" -> write_echo(r.msg)
      [] r.kind = "Set" -> write_set_result(r.value)
      [] r.kind = "Get" ->
           IF LsmGet(mt, bf, r.key).val = <<>> THEN write_null
           ELSE write_get_result(LsmGet(mt, bf, r.key).val[1])

\* The driver takes what read() returned: a request is dispatched to the
\* store and answered, and read() is called again; anything else ends the
\* session.
Respond ==
    /\ pc = "ret"
    /\ IF ~IsRequest(ret)
       THEN pc' = "closed" /\ UNCHANGED <<resp, nResp, storeVars>>
       ELSE IF ret.kind = "Get"
               /\ LsmGet(memtable, bloom_filter, ret.key).kind = "Panic"
            THEN pc' = "panic" /\ UNCHANGED <<resp, nResp, storeVars>>
            ELSE /\ pc' = "idle"
                 /\ resp' = ResponseTo(ret, memtable, bloom_filter)
                 /\ nResp' = nResp + 1
                 /\ memtable' = IF ret.kind = "Set"
                                THEN MemAfter(memtable, ret) ELSE memtable
                 /\ bloom_filter' = IF ret.kind = "Set"
                                    THEN BloomAfter(bloom_filter, ret)
                                    ELSE bloom_filter
    /\ UNCHANGED <<protoVars, localVars, ret, wire, clientVars, writerVars,
                   histVars, readHist, connVars>>

\* The client writes one more request to the connection.
ClientSend(r) ==
    /\ pc \in {"idle", "run", "ret"}
    /\ nSent < MaxReqs
    /\ wire' = wire \o Encode(r)
    /\ pending' = Append(pending, r)
    /\ nSent' = nSent + 1
    /\ UNCHANGED <<protoVars, localVars, pc, ret, resp, nResp, storeVars,
                   clientVars, writerVars, expected, prev, nRet, ahead,
                   readHist, connVars>>

\* ------------------------------------------------------------------------
\* Specification of one session
\* ------------------------------------------------------------------------

\* Proto::new, LSMStore::new, and the call locals before the first call.
ProtoInit ==
    /\ buf = <<>>
    /\ fresh = TRUE
    /\ state = "Start"
    /\ op = "Get"
    /\ between_colons = FALSE
    /\ needs_read = FALSE
    /\ ptr = 0
    /\ key_len_buf = <<>>
    /\ key_len = 0
    /\ key = <<>>
    /\ echo = <<>>
    /\ value_len_buf = <<>>
    /\ value_len = 0
    /\ value = <<>>
    /\ residual = <<>>
    /\ ret = NoOp
    /\ resp = <<>>
    /\ nResp = 0
    /\ kill = FALSE
    /\ peer = "open"

StoreInit ==
    /\ memtable = <<>>
    /\ bloom_filter = {}
    /\ mutex = 0
    /\ hpc = [h \in Handles |-> "idle"]
    /\ todo = <<>>
    /\ got = [h \in Handles |-> <<>>]
    /\ last = [k \in StoreKeys |-> <<>>]
    /\ serial = [mem |-> <<>>, bloom |-> {}]

HistInit ==
    /\ expected = NoReq
    /\ prev = NoReq
    /\ nRet = 0
    /\ ahead = 0
    /\ oneByte = TRUE
    /\ firstRead = "none"
    /\ resumed = FALSE

Init ==
    /\ ProtoInit
    /\ StoreInit
    /\ HistInit
    /\ pc = "idle"
    /\ wire = <<>>
    /\ pending = <<>>
    /\ nSent = 0
    /\ wdata = <<>>
    /\ wout = <<>>

ReadStep ==
    \/ Call
    \/ \E n \in 1..Min(Len(wire), BUF_SIZE) : Refill(n)
    \/ Start
    \/ ReadOp
    \/ ReadKeyLen
    \/ ReadEcho
    \/ ReadKey
    \/ ReadValueLen
    \/ ReadValue
    \/ Done

Next ==
    \/ \E r \in Requests : ClientSend(r)
    \/ ReadStep
    \/ Respond

Spec == Init /\ [][Next]_vars

\* ------------------------------------------------------------------------
\* Specification of a session that receives one request on a fresh reader
\* ------------------------------------------------------------------------

\* The store as some earlier session left it: empty, or after one Set.
Preloads == { <<>>, <<Set(<<"a">>, <<>>)>>, <<Set(<<"a">>, <<"b">>)>> }

RECURSIVE MemAfterAll(_, _)
MemAfterAll(mt, is) ==
    IF is = <<>> THEN mt ELSE MemAfterAll(MemAfter(mt, Head(is)), Tail(is))

RECURSIVE BloomAfterAll(_, _)
BloomAfterAll(bf, is) ==
    IF is = <<>> THEN bf ELSE BloomAfterAll(BloomAfter(bf, Head(is)), Tail(is))

InitOne ==
    /\ ProtoInit
    /\ HistInit
    /\ \E is \in Preloads :
          /\ memtable = MemAfterAll(<<>>, is)
          /\ bloom_filter = BloomAfterAll({}, is)
          /\ serial = [mem |-> MemAfterAll(<<>>, is),
                       bloom |-> BloomAfterAll({}, is)]
    /\ mutex = 0
    /\ hpc = [h \in Handles |-> "idle"]
    /\ todo = <<>>
    /\ got = [h \in Handles |-> <<>>]
    /\ last = [k \in StoreKeys |-> <<>>]
    /\ pc = "idle"
    /\ \E r \in OneRequests :
          /\ wire = Encode(r)
          /\ pending = <<r>>
    /\ nSent = 1
    /\ wdata = <<>>
    /\ wout = <<>>

NextOne ==
    \/ ReadStep
    \/ Respond

SpecOne == InitOne /\ [][NextOne]_vars

\* ------------------------------------------------------------------------
\* Specification of a session whose connection ends or is shut down
\* ------------------------------------------------------------------------

\* The request the client is writing when the session starts.
IORequests ==
    { Request(Get(<<"a">>), <<>>),
      Request(Set(<<"a">>, <<"b">>), <<>>),
      Request(Echo(<<"a", NL>>), <<>>) }

\* The client has written some first bytes of one request, all of it or
\* none of it, and writes no more.
InitIO ==
    /\ ProtoInit
    /\ StoreInit
    /\ HistInit
    /\ pc = "idle"
    /\ \E r \in IORequests :
          \E n \in 0..Len(Encode(r)) :
              /\ wire = SubSeq(Encode(r), 1, n)
              /\ pending = IF n = Len(Encode(r)) THEN <<r>> ELSE <<>>
              /\ nSent = IF n = Len(Encode(r)) THEN 1 ELSE 0
    /\ wdata = <<>>
    /\ wout = <<>>

notConn == <<protoVars, localVars, pc, ret, wire, resp, nResp, storeVars,
             clientVars, writerVars, histVars, readHist>>

\* The server broadcasts the shutdown signal.
Shutdown ==
    /\ ~kill
    /\ pc # "done"
    /\ kill' = TRUE
    /\ UNCHANGED <<peer, notConn>>

\* The peer ends the connection: a clean close, the stream cut short, or
\* a failure of the transport.
PeerEnds(how) ==
    /\ peer = "open"
    /\ pc # "done"
    /\ peer' = how
    /\ UNCHANGED <<kill, notConn>>

\* The session has ended after the shutdown signal; the server reports that
\* the shutdown is complete.
ShutdownComplete ==
    /\ pc = "closed"
    /\ kill
    /\ pc' = "done"
    /\ UNCHANGED <<protoVars, localVars, ret, wire, resp, nResp, storeVars,
                   clientVars, writerVars, histVars, readHist, connVars>>

NextIO ==
    \/ ReadStep
    \/ Respond
    \/ ReadCancelled
    \/ ReadEof
    \/ ReadIoError
    \/ ReadZero
    \/ Shutdown
    \/ \E how \in {"closed", "aborted", "failed"} : PeerEnds(how)
    \/ ShutdownComplete

SpecIO == InitIO /\ [][NextIO]_vars

\* The select in read_buf completes when one of its branches can, and the
\* session and the server run on when they can.
SpecLive ==
    /\ InitIO
    /\ [][NextIO]_vars
    /\ WF_vars(ReadCancelled)
    /\ WF_vars(Respond)
    /\ WF_vars(ShutdownComplete)

\* The task that runs read() is scheduled while it can take a step, and a
\* socket read on an ended stream returns at once.
SpecRun ==
    /\ InitIO
    /\ [][NextIO]_vars
    /\ WF_vars(ReadStep)
    /\ WF_vars(ReadZero)
    /\ WF_vars(ReadEof)
    /\ WF_vars(ReadIoError)
    /\ WF_vars(ReadCancelled)
    /\ WF_vars(Respond)

\* ------------------------------------------------------------------------
\* Specification of a session whose client writes a malformed header
\* ------------------------------------------------------------------------

\* What the client writes: one line whose header is no header of the
\* protocol.
MalformedStreams ==
    {
      \* no opcode token
      <<"G", "E", "X", COLON, "1", COLON, "a", NL>>,
      <<"G", "E", "T", "1", COLON, "a", NL>>,
      \* a length field that does not open with ':'
      <<"E", "C", "H", "O", "1", COLON, "a", NL>>,
      <<"S", "E", "T", COLON, "1", COLON, "a", "1", COLON, "b", NL>>,
      \* no digit between the colons
      <<"G", "E", "T", COLON, COLON, "a", NL>>,
      <<"S", "E", "T", COLON, "1", COLON, "a", COLON, COLON, "b", NL>>,
      \* bytes that are no digits between the colons
      <<"G", "E", "T", COLON, "x", COLON, "a", NL>>,
      <<"E", "C", "H", "O", COLON, "1", "a", COLON, "a", NL>>,
      <<"G", "E", "T", COLON, BadByte, COLON, "a", NL>>,
      <<"G", "E", "T", COLON, "+", "1", COLON, "a", NL>>,
      <<"E", "C", "H", "O", COLON, "+", "1", COLON, "a", NL>>,
      <<"S", "E", "T", COLON, "1", COLON, "a", COLON, "+", "1", COLON, "b", NL>>
    }

InitRaw ==
    /\ ProtoInit
    /\ StoreInit
    /\ HistInit
    /\ pc = "idle"
    /\ wire \in MalformedStreams
    /\ pending = <<>>
    /\ nSent = 0
    /\ wdata = <<>>
    /\ wout = <<>>

NextRaw ==
    \/ ReadStep
    \/ Respond

SpecRaw == InitRaw /\ [][NextRaw]_vars

\* ------------------------------------------------------------------------
\* Specification of the store under its clients
\* ------------------------------------------------------------------------

notStore == <<protoVars, localVars, pc, ret, wire, resp, nResp, writerVars,
              histVars, readHist, connVars>>

\* The last instruction for key k in the list is, if there is one.
RECURSIVE LastFor(_, _)
LastFor(is, k) ==
    IF is = <<>> THEN <<>>
    ELSE IF is[Len(is)].key = k THEN <<is[Len(is)]>>
    ELSE LastFor(SubSeq(is, 1, Len(is) - 1), k)

\* A client calls get and awaits the lock.
GetCall(h) ==
    /\ hpc[h] = "idle"
    /\ hpc' = [hpc EXCEPT ![h] = "get"]
    /\ UNCHANGED <<storeVars, mutex, todo, got, last, serial, notStore>>

\* A slip: get reads the memtable and filter without holding the lock.
GetRunUnlocked(h, k) ==
    /\ hpc[h] = "get"
    /\ got' = [got EXCEPT ![h] =
                  <<[key |-> k, res |-> LsmGet(memtable, bloom_filter, k),
                     seen |-> last[k]]>>]
    /\ hpc' = [hpc EXCEPT ![h] =
                  IF LsmGet(memtable, bloom_filter, k).kind = "Panic"
                  THEN "panic" ELSE "got"]
    /\ UNCHANGED <<storeVars, mutex, todo, last, serial, notStore>>

\* LSMStore::get, from taking the lock to dropping it.
GetRun(h, k) ==
    /\ hpc[h] = "get"
    /\ mutex = 0
    /\ got' = [got EXCEPT ![h] =
                  <<[key |-> k, res |-> LsmGet(memtable, bloom_filter, k),
                     seen |-> last[k]]>>]
    /\ hpc' = [hpc EXCEPT ![h] =
                  IF LsmGet(memtable, bloom_filter, k).kind = "Panic"
                  THEN "panic" ELSE "got"]
    /\ UNCHANGED <<storeVars, mutex, todo, last, serial, notStore>>

\* The caller takes the result of get.
GetReturn(h) ==
    /\ hpc[h] = "got"
    /\ got' = [got EXCEPT ![h] = <<>>]
    /\ hpc' = [hpc EXCEPT ![h] = "idle"]
    /\ UNCHANGED <<storeVars, mutex, todo, last, serial, notStore>>

\* A client calls transact and awaits the lock.
TransactCall(h) ==
    /\ hpc[h] = "idle"
    /\ hpc' = [hpc EXCEPT ![h] = "transact"]
    /\ UNCHANGED <<storeVars, mutex, todo, got, last, serial, notStore>>

\* What taking the lock for txn adds to the history.
Locked(txn) ==
    /\ last' = [k \in StoreKeys |->
                  IF LastFor(txn, k) # <<>> THEN LastFor(txn, k) ELSE last[k]]
    /\ serial' = [mem |-> MemAfterAll(serial.mem, txn),
                  bloom |-> BloomAfterAll(serial.bloom, txn)]

\* A slip: the transaction starts without waiting for the lock.
TransactLockBarging(h, txn) ==
    /\ hpc[h] = "transact"
    /\ mutex' = h
    /\ todo' = txn
    /\ hpc' = [hpc EXCEPT ![h] = "apply"]
    /\ Locked(txn)
    /\ UNCHANGED <<storeVars, got, notStore>>

\* LSMStore::transact takes the lock for the transaction txn.
TransactLock(h, txn) ==
    /\ hpc[h] = "transact"
    /\ mutex = 0
    /\ mutex' = h
    /\ todo' = txn
    /\ hpc' = [hpc EXCEPT ![h] = "apply"]
    /\ Locked(txn)
    /\ UNCHANGED <<storeVars, got, notStore>>

\* One turn of `for instruction in transaction.instructions`.
TransactStep(h) ==
    /\ hpc[h] = "apply"
    /\ todo # <<>>
    /\ memtable' = MemAfter(memtable, Head(todo))
    /\ bloom_filter' = BloomAfter(bloom_filter, Head(todo))
    /\ todo' = Tail(todo)
    /\ UNCHANGED <<mutex, hpc, got, last, serial, notStore>>

\* transact returns Ok(()) and drops the lock.
TransactUnlock(h) ==
    /\ hpc[h] = "apply"
    /\ todo = <<>>
    /\ mutex' = 0
    /\ hpc' = [hpc EXCEPT ![h] = "idle"]
    /\ UNCHANGED <<storeVars, todo, got, last, serial, notStore>>

NextStore ==
    \/ \E h \in Handles : GetCall(h)
    \/ \E h \in Handles, k \in StoreKeys : GetRun(h, k)
    \/ \E h \in Handles : GetReturn(h)
    \/ \E h \in Handles : TransactCall(h)
    \/ \E h \in Handles, txn \in Transactions : TransactLock(h, txn)
    \/ \E h \in Handles : TransactStep(h)
    \/ \E h \in Handles : TransactUnlock(h)

SpecStore == Init /\ [][NextStore]_vars

\* ------------------------------------------------------------------------
\* Specification of the writer: one write_* call on some data
\* ------------------------------------------------------------------------

notWriter == <<protoVars, localVars, pc, ret, wire, resp, nResp, storeVars,
               clientVars, histVars, readHist, connVars>>

InitWriter ==
    /\ ProtoInit
    /\ StoreInit
    /\ HistInit
    /\ pc = "idle"
    /\ wire = <<>>
    /\ pending = <<>>
    /\ nSent = 0
    /\ wdata \in WriterData
    /\ wout = <<>>

Written(call, bytes) ==
    /\ wout = <<>>
    /\ wout' = [call |-> call, bytes |-> bytes]
    /\ UNCHANGED <<wdata, notWriter>>

WriteNull == Written("write_null", write_null)

WriteEcho == Written("write_echo", write_echo(wdata))

WriteGetResult == Written("write_get_result", write_get_result(wdata))

WriteSetResult == Written("write_set_result", write_set_result(wdata))

NextWriter ==
    \/ WriteNull
    \/ WriteEcho
    \/ WriteGetResult
    \/ WriteSetResult

SpecWriter == InitWriter /\ [][NextWriter]_vars

\* ------------------------------------------------------------------------
\* Properties of the reader in a session (specification Spec)
\* ------------------------------------------------------------------------

\* A payload byte that is also a delimiter of the protocol.
HasDelimiter(o) ==
    \E f \in (DOMAIN o) \ {"kind"} :
        \E i \in 1..Len(o[f]) : o[f][i] \in {COLON, NL}

\* C1: every client stream of Spec is a concatenation of well-formed
\* requests, so whatever the socket reads were, each request read() yields
\* is the oldest request not yet yielded, with the same opcode, key and
\* payloads: none altered, repeated or added.  (The claim also rules out
\* an error in place of a request; C2 states that part.)
C1_ChunkingInvariance == (pc = "ret" /\ IsRequest(ret)) => ret = expected.op

\* C2: when every socket read so far returned exactly one byte, read()
\* returns the request that was sent, as it does for a delivery in one read.
C2_OneByteReads == (pc = "ret" /\ oneByte) => ret = expected.op

\* C3: when read() has returned a request, self.buf holds exactly the bytes
\* read after that request's terminating newline (none when the newline was
\* not read yet), so no byte of the returned request.
C3_BufferIsUnconsumedTail ==
    (pc = "ret" /\ IsRequest(ret) /\ ret = expected.op)
        => Len(buf) = Max(ahead, 0)

\* C4: after a request that had bytes between its last payload and its
\* newline, the next read() returns the following request unchanged.
C4_TrailingBytesDiscarded ==
    (pc = "ret" /\ prev.trail # <<>>) => ret = expected.op

\* C5: a request whose payload holds ':' or a newline is yielded with its
\* payload intact, and the read() after it, which skips to its terminator,
\* yields the request that follows it.
C5_BinaryCleanPayloads ==
    /\ (pc = "ret" /\ nRet = 1 /\ IsRequest(ret) /\ HasDelimiter(expected.op))
          => ret = expected.op
    /\ (pc = "ret" /\ HasDelimiter(prev.op)) => ret = expected.op

\* C6: there are never more responses than requests sent, and the response
\* just written answers the request whose turn it was.
C6_ResponsesAnswerRequests ==
    /\ nResp <= nSent
    /\ (pc = "idle" /\ nResp >= 1)
          => /\ expected # NoReq
             /\ resp = ResponseTo(expected.op, memtable, bloom_filter)

\* ------------------------------------------------------------------------
\* Properties of one request on a fresh reader (specification SpecOne)
\* ------------------------------------------------------------------------

\* The first read() of the session has returned.
FirstReturn == pc = "ret" /\ nRet = 1

\* The first response of the session has been written.
FirstResponse == pc = "idle" /\ nRet = 1 /\ nResp = 1

\* read() failed in ReadOp because the first socket read brought fewer than
\* the four bytes of an opcode token.
ShortOpcode == ret = Err("short_op") /\ firstRead = "short"

ZeroLength(o) ==
    \/ o.kind = "Echo" /\ o.msg = <<>>
    \/ o.kind = "Set" /\ o.value = <<>>

FirstColon(s) ==
    IF \E i \in 1..Len(s) : s[i] = COLON
    THEN CHOOSE i \in 1..Len(s) :
            s[i] = COLON /\ \A j \in 1..(i - 1) : s[j] # COLON
    ELSE 0

\* A decimal number as to_string writes it: no sign, no leading zero.
Canonical(s) ==
    /\ Len(s) > 0
    /\ \A i \in 1..Len(s) : IsDigit(s[i])
    /\ (Len(s) > 1 => s[1] # "0")

\* C9: write_set_result(bytes) emits <L>:<N> and a newline, N the decimal
\* length of bytes and L the number of digits of N (1:8 for 8 bytes, 2:10
\* for 10), and nothing of bytes itself.
C9_SetResultFraming ==
    (wout # <<>> /\ wout.call = "write_set_result") =>
        LET out == wout.bytes
            c == FirstColon(out)
            L == SubSeq(out, 1, c - 1)
            N == SubSeq(out, c + 1, Len(out) - 1)
        IN  /\ c > 1
            /\ out[Len(out)] = NL
            /\ Canonical(L)
            /\ Canonical(N)
            /\ ParseUsize(N) = Len(wdata)
            /\ ParseUsize(L) = Len(N)
            /\ (Len(wdata) = 8 => out = <<"1", COLON, "8", NL>>)
            /\ (Len(wdata) = 10 => out = <<"2", COLON, "1", "0", NL>>)

C9_Witness ==
    /\ wout # <<>>
    /\ wout.call = "write_set_result"
    /\ Len(wdata) = 10
    /\ wout.bytes = <<"2", COLON, "1", "0", NL>>

\* ------------------------------------------------------------------------
\* Properties of the store (specification SpecStore)
\* ------------------------------------------------------------------------

\* What get is to return after instruction i was the last one for its key.
Effect(i) == IF i.kind = "Set" THEN <<i.value>> ELSE <<>>

Ok(v) == [kind |-> "Ok", val |-> v]

\* C10: with no transaction in progress, get(K) is the effect of the last
\* instruction for K among the transactions applied (V after Set(K, V),
\* absent after Delete(K)), and every get that has returned returned the
\* effect of the last instruction for its key at that time.
C10_LastWriterWins ==
    /\ mutex = 0 =>
          \A k \in StoreKeys :
              last[k] # <<>> =>
                  LsmGet(memtable, bloom_filter, k) = Ok(Effect(last[k][1]))
    /\ \A h \in Handles :
          (got[h] # <<>> /\ got[h][1].seen # <<>>)
              => got[h][1].res = Ok(Effect(got[h][1].seen[1]))

\* A get of a key that was set and then deleted, next to a key that was set
\* twice.
C10_Witness ==
    \E h \in Handles :
        /\ got[h] # <<>>
        /\ got[h][1].key = <<"a">>
        /\ got[h][1].seen = <<Delete(<<"a">>)>>
        /\ got[h][1].res = Ok(<<>>)
        /\ BloomContains(bloom_filter, <<"a">>)
        /\ last[<<"b">>] = <<Set(<<"b">>, <<"v">>)>>

\* Key k has a tombstone in the memtable.
Tombstone(k) == MemGet(memtable, k) = << <<>> >>

\* C11: when the last instruction for a key among the transactions applied
\* is Delete, the memtable holds the key mapped to a tombstone and get
\* returns absent for it, whether the key is in the filter (it was set
\* before) or not (it never was); and every get that ran after a Delete of
\* its key and before a later Set returned absent.
C11_DeleteLeavesTombstone ==
    /\ mutex = 0 =>
          \A k \in StoreKeys :
              (last[k] # <<>> /\ last[k][1].kind = "Delete") =>
                  /\ Tombstone(k)
                  /\ LsmGet(memtable, bloom_filter, k) = Ok(<<>>)
    /\ \A h \in Handles :
          (got[h] # <<>> /\ got[h][1].seen # <<>>
              /\ got[h][1].seen[1].kind = "Delete")
              => got[h][1].res = Ok(<<>>)

\* A key set and then deleted and a key deleted without ever being set,
\* and a get of the former that went through the tombstone.
C11_Witness ==
    /\ mutex = 0
    /\ Tombstone(<<"a">>)
    /\ BloomContains(bloom_filter, <<"a">>)
    /\ Tombstone(<<"c">>)
    /\ ~BloomContains(bloom_filter, <<"c">>)
    /\ \E h \in Handles :
          /\ got[h] # <<>>
          /\ got[h][1].key = <<"a">>
          /\ got[h][1].res = Ok(<<>>)

\* C12: a get of a key for which no Set and no Delete was ever applied
\* returns absent.
C12_NeverInsertedIsAbsent ==
    \A h \in Handles :
        (got[h] # <<>> /\ got[h][1].seen = <<>>) => got[h][1].res = Ok(<<>>)

\* C13 as stated: the filter answers true for every key that has a
\* memtable entry.
C13_FilterCoversMemtable ==
    \A k \in DOMAIN memtable : BloomContains(bloom_filter, k)

\* C13, amended: every key written by a Set is in the filter from then on
\* (a step that leaves a value for a key in the memtable leaves the key in
\* the filter, and the filter never loses a key), so the filter answers true
\* for every key that has a value or was set before it was deleted; a key
\* that was only ever deleted has a tombstone and need not be in the filter.
C13_SetKeysInFilter ==
    [][\A k \in StoreKeys :
          (\/ (k \in DOMAIN memtable' /\ memtable'[k] # <<>>)
           \/ BloomContains(bloom_filter, k))
              => BloomContains(bloom_filter', k)]_vars

C13_Witness ==
    /\ MemGet(memtable, <<"a">>) = << << <<"v">> >> >>
    /\ BloomContains(bloom_filter, <<"a">>)
    /\ Tombstone(<<"c">>)
    /\ ~BloomContains(bloom_filter, <<"c">>)

\* C14: a get takes its result in a state where no transaction is partly
\* applied: no instruction is outstanding, the lock is free, and for every
\* key the memtable holds the effect of the last instruction for it in the
\* transactions that took the lock, each of them whole; the result is what
\* that state gives.  While a transaction is being applied the lock is held.
C14_ReadersSeeWholeTransactions ==
    [][/\ todo' # <<>> => mutex' # 0
       /\ \A h \in Handles :
             (hpc[h] = "get" /\ hpc'[h] # "get") =>
                 /\ mutex = 0
                 /\ todo = <<>>
                 /\ \A k \in StoreKeys :
                       last[k] # <<>>
                           => MemGet(memtable, k) = <<Effect(last[k][1])>>
                 /\ got'[h][1].res
                       = LsmGet(memtable, bloom_filter, got'[h][1].key)]_vars

\* A get that returned the state before a transaction of two instructions
\* which writes the key it read and of which the first has been applied
\* since.
C14_Witness ==
    \E h1, h2 \in Handles :
        /\ hpc[h1] = "apply"
        /\ Len(todo) = 1
        /\ memtable # serial.mem
        /\ hpc[h2] = "got"
        /\ got[h2][1].res = Ok(<< <<"v">> >>)
        /\ got[h2][1].seen # last[got[h2][1].key]

\* C15: only the holder of the lock applies instructions, and the memtable
\* and the filter are, once the instructions outstanding are applied, those
\* that result from applying the transactions one after the other in the
\* order in which they took the lock.
C15_TransactionsLinearise ==
    /\ \A h \in Handles : hpc[h] = "apply" => mutex = h
    /\ mutex = 0 => todo = <<>>
    /\ MemAfterAll(memtable, todo) = serial.mem
    /\ BloomAfterAll(bloom_filter, todo) = serial.bloom

\* Two transactions submitted together: one is half applied, the other
\* awaits the lock, after an earlier transaction on another key.
C15_Witness ==
    \E h1, h2 \in Handles :
        /\ hpc[h1] = "apply"
        /\ hpc[h2] = "transact"
        /\ Len(todo) = 1
        /\ memtable # serial.mem
        /\ bloom_filter # serial.bloom
        /\ Tombstone(<<"c">>)

\* What the store's callers can observe: the result of get for every key.
Observable(mt, bf) == [k \in StoreKeys |-> LsmGet(mt, bf, k)]

\* The store after the transaction [i].
Applied(s, i) == [mem |-> MemAfter(s.mem, i), bloom |-> BloomAfter(s.bloom, i)]

\* The instruction transact is about to apply is a Set that the store has
\* applied before, with nothing for its key since.
SetAgain ==
    /\ todo # <<>>
    /\ Head(todo).kind = "Set"
    /\ MemGet(memtable, Head(todo).key) = << <<Head(todo).value>> >>
    /\ BloomContains(bloom_filter, Head(todo).key)

\* C16: from every store state, the transaction [Set(K, V)] applied twice
\* leaves the same result of get for every key as applied once; and where
\* transact is about to apply a Set for the second time, get gives for
\* every key after it what it gives before it.
C16_SetIdempotent ==
    LET s0 == [mem |-> memtable, bloom |-> bloom_filter]
    IN  /\ \A i \in Instructions :
              i.kind = "Set" =>
                  Observable(Applied(Applied(s0, i), i).mem,
                             Applied(Applied(s0, i), i).bloom)
                      = Observable(Applied(s0, i).mem, Applied(s0, i).bloom)
        /\ SetAgain =>
              Observable(Applied(s0, Head(todo)).mem,
                         Applied(s0, Head(todo)).bloom)
                  = Observable(memtable, bloom_filter)

\* transact is about to apply Set(a, v) a second time: the store is
\* already what it is to be when the transaction is through.
C16_Witness ==
    /\ SetAgain
    /\ Head(todo) = Set(<<"a">>, <<"v">>)
    /\ mutex # 0
    /\ memtable = serial.mem
    /\ bloom_filter = serial.bloom

\* ------------------------------------------------------------------------
\* Properties of a session whose connection ends or is shut down
\* (specifications SpecIO and SpecLive)
\* ------------------------------------------------------------------------

\* C17: when the shutdown signal wins the race in read_buf, in whatever
\* state the parser is, read() returns Cancelled and the bytes the
\* connection holds stay where they are; and read() returns Cancelled only
\* so: after the signal, out of a pending socket read, taking no byte.
C17_CancelledConsumesNothing ==
    [][/\ ReadCancelled =>
             (pc' = "ret" /\ ret' = Cancelled /\ wire' = wire
                 /\ pending' = pending /\ ahead' = ahead)
       /\ (ret' = Cancelled /\ ret # Cancelled) =>
             (kill /\ pc = "run" /\ needs_read /\ wire' = wire)]_vars

\* Cancelled in the middle of a request, half of its key length read, with bytes
\* on the connection that the socket read could have taken.
C17_Witness ==
    /\ pc = "ret"
    /\ ret = Cancelled
    /\ state = "ReadKeyLen"
    /\ key_len_buf # <<>>
    /\ wire # <<>>
    /\ peer = "open"

\* The session is inside read(), awaiting bytes the peer has not written.
Blocked == pc = "run" /\ needs_read /\ wire = <<>> /\ peer = "open"

\* C18: a session blocked in read() when the shutdown signal is out comes
\* to the point where its read() has returned Cancelled, it has ended and
\* the server has reported the shutdown complete, unless the peer ends the
\* connection first.
C18_ShutdownLiveness ==
    (Blocked /\ kill) ~> ((pc = "done" /\ ret = Cancelled) \/ peer # "open")

\* A session shut down while it awaited the rest of a value.
C18_Witness ==
    /\ pc = "done"
    /\ ret = Cancelled
    /\ state = "ReadValue"
    /\ wire = <<>>
    /\ peer = "open"

\* C19: the client wrote nothing and closed the connection cleanly, and no
\* shutdown was signalled: what read() returns is SysClose.
C19_CleanCloseIsEndOfStream ==
    (pc = "ret" /\ peer = "closed" /\ ~kill /\ wire = <<>> /\ ahead = 0)
        => ret = SysClose

\* C20: a step of ReadOp that matches the opcode token with the cursor at p
\* leaves the cursor at p + 3 for GET and SET and at p + 4 for ECHO.
C20_CursorAdvancesFromP ==
    [][(InState("ReadOp") /\ state' = "ReadKeyLen") =>
          ptr' = ptr + (IF op' = "Echo" THEN 4 ELSE 3)]_vars

\* ------------------------------------------------------------------------
\* The memtable behind the filter (specification SpecStore)
\* ------------------------------------------------------------------------

\* An instruction for key k has been applied to the store: one was taken
\* under the lock, and none for k is still to be applied.
HasEntryDue(k) ==
    /\ last[k] # <<>>
    /\ \A i \in 1..Len(todo) : todo[i].key # k

\* C28: a key to which an instruction has been applied has a memtable entry
\* (a value or a tombstone); the step of transact that inserts a key into
\* the filter leaves the key with a memtable entry; no step takes an entry
\* out of the memtable; so a get for a key that was written or deleted
\* before finds the entry and does not fail on the unwrap.
C28_FilterKeysHaveEntries ==
    /\ [](\A k \in StoreKeys : HasEntryDue(k) => k \in DOMAIN memtable)
    /\ [][\A k \in DOMAIN memtable : k \in DOMAIN memtable']_vars
    /\ [][(todo # <<>> /\ todo' = Tail(todo) /\ Head(todo).kind = "Set")
             => /\ BloomContains(bloom_filter', Head(todo).key)
                /\ Head(todo).key \in DOMAIN memtable']_vars
    /\ [](\A h \in Handles :
             (got[h] # <<>> /\ got[h][1].seen # <<>>)
                 => /\ got[h][1].res.kind = "Ok"
                    /\ hpc[h] # "panic")

\* A get has found, behind a filter that answers true, the tombstone of a
\* key that was set and then deleted.
C28_Witness ==
    \E h \in Handles :
        /\ hpc[h] = "got"
        /\ got[h] # <<>>
        /\ got[h][1].seen # <<>>
        /\ got[h][1].seen[1].kind = "Delete"
        /\ BloomContains(bloom_filter, got[h][1].key)
        /\ got[h][1].key \in DOMAIN memtable
        /\ got[h][1].res = [kind |-> "Ok", val |-> <<>>]

\* ------------------------------------------------------------------------
\* Properties of the parser's states
\* ------------------------------------------------------------------------

\* A step of read() itself, as opposed to one of the client, the peer or
\* the server.
ReaderMoves == <<pc, buf, localVars>>' # <<pc, buf, localVars>>

\* ReadOp is about to run with fewer than four bytes at the cursor.
OpcodeShort ==
    InState("ReadOp") /\ ptr + MIN_BUF_SIZE > Len(buf)

\* C21: from ReadOp with fewer than 4 bytes at the cursor and the cursor at
\* position 0, the next step of read() returns the malformed-input error:
\* no request is yielded, no socket read is asked for and no byte is taken
\* from the connection.
C21_ShortOpcodeAtStartFails ==
    [][(OpcodeShort /\ ptr = 0 /\ ReaderMoves)
          => /\ pc' = "ret"
             /\ ret' = Err("short_op")
             /\ ~needs_read'
             /\ buf' = buf
             /\ wire' = wire]_vars

\* read() has failed on the two bytes a first socket read brought.
C21_Witness ==
    /\ pc = "ret"
    /\ ret = Err("short_op")
    /\ state = "ReadOp"
    /\ ptr = 0
    /\ Len(buf) = 2
    /\ wire # <<>>

\* The bytes of the requests written and not yet returned, in order.
RECURSIVE Unreturned(_)
Unreturned(ps) ==
    IF ps = <<>> THEN <<>> ELSE Encode(Head(ps)) \o Unreturned(Tail(ps))

\* The bytes of self.buf from the cursor on.
AtCursor == SubSeq(buf, ptr + 1, Len(buf))

\* The cursor stands just past the terminator of the request returned last:
\* the bytes from the cursor on are those read after that terminator.
PastTerminator == ahead = Len(buf) - ptr

\* C22: from ReadOp with fewer than 4 bytes at a cursor position above 0,
\* read() asks for a socket read and stays in ReadOp, the bytes at the
\* cursor being held in the residual; the socket read that follows leaves
\* ReadOp to retry at position 0 of a buffer made of those bytes followed by
\* the bytes just read.  When the cursor stood just past the terminator of
\* the request returned before, those bytes are the start of the next
\* request as the client wrote it.
C22_PartialOpcodeKept ==
    [][/\ (OpcodeShort /\ ptr > 0 /\ ReaderMoves)
           => /\ pc' = "run"
              /\ state' = "ReadOp"
              /\ needs_read'
              /\ residual' = AtCursor
              /\ wire' = wire
              /\ PastTerminator => AtCursor \o wire = Unreturned(pending)
       /\ (pc = "run" /\ state = "ReadOp" /\ needs_read /\ ReaderMoves)
           => /\ InState("ReadOp")'
              /\ ptr' = 0
              /\ residual' = <<>>
              /\ buf' \o wire' = AtCursor \o wire]_vars

\* The second read() of a session waits for a socket read in ReadOp with
\* the first two bytes of the next request kept.
C22_Witness ==
    /\ pc = "run"
    /\ nRet = 1
    /\ state = "ReadOp"
    /\ needs_read
    /\ ptr > 0
    /\ Len(residual) = 2
    /\ PastTerminator
    /\ residual \o wire = Unreturned(pending)

\* What a call of read() has collected of the request it is reading.
Collected ==
    <<op, between_colons, key_len_buf, key_len, key, echo, value_len_buf,
      value_len, value>>

\* C23: when a length or payload field runs out of buffer, the next step
\* of read() is a socket read after which the same state goes on with the
\* opcode, the lengths and the bytes collected so far unchanged, on a
\* buffer holding the bytes just read and no others; and a call that went
\* through such a read returns the request the client wrote, each field
\* with the stream's bytes for it.
C23_FieldsResume ==
    /\ [][(pc = "run" /\ needs_read /\ state \in FieldStates /\ ReaderMoves)
             => /\ pc' = "run"
                /\ state' = state
                /\ ~needs_read'
                /\ Collected' = Collected
                /\ ptr' = 0
                /\ buf' \o wire' = wire]_vars
    /\ []((pc = "ret" /\ resumed) => ret = expected.op)

\* The states that may follow state s in a call with opcode o.
PathNext(s, o) ==
    CASE s = "Start" -> {"ReadOp"}
      [] s = "ReadOp" -> {"ReadKeyLen"}
      [] s = "ReadKeyLen" -> IF o = "Echo" THEN {"ReadEcho"} ELSE {"ReadKey"}
      [] s = "ReadEcho" -> {"Done"}
      [] s = "ReadKey" -> IF o = "Get" THEN {"Done"}
                          ELSE IF o = "Set" THEN {"ReadValueLen"} ELSE {}
      [] s = "ReadValueLen" -> {"ReadValue"}
      [] s = "ReadValue" -> {"Done"}
      [] s = "Done" -> {}

\* C25: inside a call of read() the state changes only along the path of
\* the opcode matched in ReadOp (ECHO: ReadOp, ReadKeyLen, ReadEcho, Done;
\* GET: ReadOp, ReadKeyLen, ReadKey, Done; SET: ReadOp, ReadKeyLen, ReadKey,
\* ReadValueLen, ReadValue, Done); the opcode stays as matched; ReadKey is
\* never entered with ECHO and no step of read() reaches unreachable!();
\* ReadValueLen and ReadValue are entered only with SET, ReadEcho only with
\* ECHO.
C25_OnePathPerOpcode ==
    /\ [][(pc = "run" /\ pc' = "run" /\ state' # state)
             => state' \in PathNext(state, op')]_vars
    /\ [][(pc = "run" /\ pc' = "run" /\ state \notin {"Start", "ReadOp"})
             => op' = op]_vars
    /\ [][pc = "run" => pc' # "panic"]_vars
    /\ []((pc = "run" /\ state = "ReadKey") => op \in {"Get", "Set"})
    /\ []((pc = "run" /\ state = "ReadEcho") => op = "Echo")
    /\ []((pc = "run" /\ state \in {"ReadValueLen", "ReadValue"})
             => op = "Set")

\* A reused reader has taken an ECHO to Done, after a SET.
C25_Witness ==
    /\ pc = "ret"
    /\ nRet = 2
    /\ prev.op.kind = "Set"
    /\ op = "Echo"
    /\ state = "Done"
    /\ ret.kind = "Echo"

\* C26: read() never returns a Get or a Set whose key is empty; a GET or
\* SET that announces key length 0 is not returned as a request.
C26_KeysNonEmpty ==
    (pc = "ret" /\ ret.kind \in {"Get", "Set"}) => ret.key # <<>>

\* ------------------------------------------------------------------------
\* Termination of read() (specification SpecRun)
\* ------------------------------------------------------------------------

\* C27: once the peer has closed the stream, a call of read() that is
\* under way returns, whether or not a shutdown signal is ever sent: it
\* does not go on reading zero bytes from the socket for ever.
C27_ReadReturnsAfterClose ==
    (pc = "run" /\ peer = "closed") ~> (pc # "run" \/ kill)

\* ------------------------------------------------------------------------
\* Properties of malformed input (specification SpecRaw)
\* ------------------------------------------------------------------------

\* C24: the first read() of a connection whose first line has a malformed
\* header (no opcode token in the 4 bytes at the cursor, a length field
\* that does not open with ':', or bytes between the two ':' that are not
\* decimal digits, none at all included) returns an error and no request.
C24_MalformedHeadersFail == FirstReturn => ret.kind = "Err"

====
